---- MODULE Spec2Model ----
(***************************************************************************)
(* The sync coordinator of src/src/sync.js (class Sync: count,             *)
(* addOperation, push, clear) over the local log store, the local cache    *)
(* and the remote store, with the local request executor of                *)
(* src/src/requests/local.js.                                              *)
(*                                                                         *)
(* Every storage or network request is a suspension point: a request is    *)
(* issued by one step and settles (succeeds or fails) in a later step.     *)
(* The caller of Sync awaits each call before making the next one.         *)
(***************************************************************************)
EXTENDS Integers, Sequences, FiniteSets, TLC

(***************************************************************************)
(* Bounds of the model.                                                    *)
(***************************************************************************)
\* Largest number of entries the log store holds when the Sync is constructed.
MaxLog == 2
\* Largest number of entities passed to one addOperation call.
MaxEntities == 2
\* The behaviours that make several calls: the number of calls, and the
\* largest number of entries of the log they start from.
MaxCalls == 2
DeepLog == 1
\* Scaled-down batch sizes 1..SmallBatch are explored next to the code's own.
SmallBatch == 2
\* Largest number of execute calls made on one LocalRequest.
MaxRuns == 2

(***************************************************************************)
(* Program constants.                                                      *)
(***************************************************************************)
\* const batchSize = 100 in push
CodeBatchSize == 100
syncCollectionName == "kinvey_sync"
Create == "POST"
Update == "PUT"
Delete == "DELETE"
SyncOperation == {Create, Update, Delete}
\* A stored state.method that is none of the three operations.
Unrecognized == "PATCH"
Methods == SyncOperation \cup {Unrecognized}

\* Entity ids of queued entities, ids the server assigns on a remote create.
Ids == {"A", "B", "C"}
\* The ids of the entities of the initial logs that may share ids, of the
\* entities passed to addOperation, and of the queries.
LogIds == {"A", "B"}
\* The ids, by ascending key, of the three-entry logs the model starts from
\* next to the logs of up to MaxLog entries: pairwise distinct ids, the same id
\* at the lowest and the highest key with another id between them, and the
\* same id at the two highest keys.
IdPatterns == { <<"A", "B", "C">>, <<"A", "B", "A">>, <<"B", "A", "A">> }
PatternLen == Len(CHOOSE p \in IdPatterns : TRUE)
\* Largest key of an initial log.
MaxKey == IF MaxLog > PatternLen THEN MaxLog ELSE PatternLen
ServerIdSeq == <<"S1", "S2">>
ServerIds == { ServerIdSeq[n] : n \in 1..Len(ServerIdSeq) }
AllIds == Ids \cup ServerIds
Collections == {"books"}
None == "none"

\* Error kinds.
InsufficientCredentialsError == "InsufficientCredentialsError"
NotFoundError == "NotFoundError"
KinveyError == "KinveyError"
RemoteErrors == {InsufficientCredentialsError, NotFoundError, KinveyError}
LocalError == "LocalError"
SyncError == "SyncError"
NoResponseError == "NoResponseError"
TypeError == "TypeError"

\* Payloads: the queued local payload, the payload as the server stores and
\* returns it, and the copy the remote store held before any push.
LocalData == "d"
ServerData == "ds"
RemoteOld == "r"

BatchSizes == (1..SmallBatch) \cup {CodeBatchSize}

Min(a, b) == IF a < b THEN a ELSE b

(***************************************************************************)
(* The log store: a set of entries.  key is the insertion token the store  *)
(* assigns; the entry's own _id is identified with it (both are unique     *)
(* per entry and assigned by the store).                                   *)
(***************************************************************************)
EntryOf(k, c, id, m) ==
  [key |-> k, collection |-> c, id |-> id, data |-> LocalData, method |-> m]

\* The logs of exactly n entries with keys 1..n.
LogsOfSize(n) ==
  { { EntryOf(k, f[k][1], f[k][2], f[k][3]) : k \in 1..n } :
      f \in [1..n -> Collections \X LogIds \X Methods] }

InitLogs == UNION { LogsOfSize(n) : n \in 0..MaxLog }

\* The three-entry logs of the id patterns.
PatternLogs ==
  UNION { { { EntryOf(k, f[k][1], p[k], f[k][2]) : k \in 1..PatternLen } :
              f \in [1..PatternLen -> Collections \X Methods] } :
          p \in IdPatterns }

\* A query is the set of entity ids it matches; Ids stands for "no query".
Queries == {Ids} \cup { {x} : x \in LogIds }
Match(q, entries) == { e \in entries : e.id \in q }

(***************************************************************************)
(* lodash orderBy(entities, 'key', ['desc']) and sortedUniqBy.             *)
(***************************************************************************)
RECURSIVE orderByKeyDesc(_)
orderByKeyDesc(entries) ==
  IF entries = {} THEN << >>
  ELSE LET top == CHOOSE e \in entries : \A o \in entries : o.key <= e.key
       IN  <<top>> \o orderByKeyDesc(entries \ {top})

\* sortedUniqBy keeps an element iff it is the first or its computed value
\* differs from that of the element right before it.
sortedUniqById(s) ==
  LET keep == { j \in 1..Len(s) : j = 1 \/ s[j].id # s[j - 1].id }
      RECURSIVE pick(_)
      pick(j) == IF j > Len(s) THEN << >>
                 ELSE IF j \in keep THEN <<s[j]>> \o pick(j + 1)
                 ELSE pick(j + 1)
  IN  pick(1)

\* What count and push make of the entries a log read returned.
Dedup(entries) == sortedUniqById(orderByKeyDesc(entries))

Range(s) == { s[j] : j \in 1..Len(s) }

VARIABLES
  log,          \* the log store (sync table)
  cache,        \* the local cache: <<collection, id>> -> payload or None
  remote,       \* the remote store: <<collection, id>> -> payload or None
  call,         \* the Sync call made last: "none", "count", "add", "push", "clear"
  pc,           \* "idle", "running", "returned", "failed"
  ret,          \* value the finished call returned, or the error it failed with
  query,        \* the query of the call
  batchSize,    \* push: the batch size
  syncEntities, \* push: the deduplicated entries
  i,            \* push: index of the next batch
  task,         \* push: per deduplicated entry, the state of its promise chain
  syncResults,  \* push: results accumulated over the batches
  addTasks,     \* addOperation: per entity, the state of its async function
  netReqs,      \* remote requests issued by the running call
  sent,         \* push: per log key, remote writes/deletes issued in this push
  batches,      \* push: the lengths of the batches started in this push
  log0,         \* the log when the call started
  cache0,       \* the cache when the call started
  remote0,      \* the remote store when the call started
  retry,        \* entries whose remote operation failed in an earlier push
  budget,       \* number of calls the caller still makes
  req,          \* a LocalRequest: its executing flag and its execute/cancel calls
  push2         \* a push invocation made without awaiting the call above

vars == <<log, cache, remote, call, pc, ret, query, batchSize, syncEntities, i,
          task, syncResults, addTasks, netReqs, sent, batches, log0, cache0,
          remote0, retry, budget, req, push2>>

\* The state of Sync and of the stores.
syncVars == <<log, cache, remote, call, pc, ret, query, batchSize, syncEntities,
              i, task, syncResults, addTasks, netReqs, sent, batches, log0,
              cache0, remote0, retry, budget, push2>>

pushVars == <<batchSize, syncEntities, i, task, syncResults, sent, batches,
              retry>>

\* A LocalRequest after construction.
\*   executing  the request's executing flag
\*   phase      execute: "idle", "rack" (awaiting this.rack.execute), "done"
\*   result     what the pipeline resolved with
\*   out        how execute settled: the response returned or the error thrown
\*   clears     how often this execute call cleared the executing flag
\*   cphase     cancel: "idle", "rack" (awaiting this.rack.cancel), "done"
\*   cout       how cancel settled
\*   runs       execute calls made so far
NotSettled == [kind |-> "none"]
IdleRequest ==
  [executing |-> FALSE, phase |-> "idle", result |-> NotSettled,
   out |-> NotSettled, clears |-> 0, cphase |-> "idle", cout |-> NotSettled,
   runs |-> 0]

\* A push invocation that runs next to the caller's awaited call.
\*   pc            "idle", "running", "returned", "failed"
\*   overlap       whether it was made while a push of the caller was running
\*   syncEntities  its deduplicated entries
\*   task          per deduplicated entry, the state of its promise chain
\*   sent          per log key, the remote writes/deletes it has issued
\*   ret           what it returned, or the error it failed with
IdlePush2 ==
  [pc |-> "idle", overlap |-> FALSE, syncEntities |-> << >>, task |-> << >>,
   sent |-> [k \in 1..MaxKey |-> 0], ret |-> << >>]

CacheKeys == Collections \X AllIds
RemoteKeys == (Collections \cup {syncCollectionName}) \X AllIds

InitStore ==
  /\ log \in InitLogs \cup PatternLogs
  /\ cache = [k \in CacheKeys |-> IF k[2] \in Ids THEN LocalData ELSE None]
  /\ remote = [k \in RemoteKeys |->
                 IF k[1] \in Collections /\ k[2] \in Ids THEN RemoteOld ELSE None]
  /\ call = "none"
  /\ pc = "idle"
  /\ ret = << >>
  /\ query = Ids
  /\ batchSize = CodeBatchSize
  /\ syncEntities = << >>
  /\ i = 0
  /\ task = << >>
  /\ syncResults = << >>
  /\ addTasks = << >>
  /\ netReqs = {}
  /\ sent = [k \in 1..MaxKey |-> 0]
  /\ batches = << >>
  /\ log0 = log
  /\ cache0 = cache
  /\ remote0 = remote
  /\ retry = {}
  /\ req = IdleRequest
  /\ push2 = IdlePush2

\* One call, from every log of up to MaxLog entries.
Init ==
  /\ InitStore
  /\ log \in InitLogs
  /\ budget = 1

\* The caller makes a call only when the previous one has settled.
CanCall == pc # "running" /\ budget > 0

(***************************************************************************)
(* count(query)                                                            *)
(***************************************************************************)
CountOf(entries) == Len(Dedup(entries))

Count(q) ==
  /\ CanCall
  /\ call' = "count"
  /\ query' = q
  /\ log0' = log
  /\ cache0' = cache
  /\ remote0' = remote
  /\ netReqs' = {}
  /\ budget' = budget - 1
  /\ addTasks' = << >>
  /\ \/ pc' = "returned" /\ ret' = <<CountOf(Match(q, log))>>
     \/ pc' = "failed" /\ ret' = <<LocalError>>
  /\ UNCHANGED <<log, cache, remote, req, push2>>
  /\ UNCHANGED pushVars

(***************************************************************************)
(* clear(query)                                                            *)
(***************************************************************************)
Cleared(q, entries) == entries \ Match(q, entries)

\* clear sends one bulk delete carrying the query sent; nothing else.
ClearWith(q, sentQuery) ==
  /\ CanCall
  /\ call' = "clear"
  /\ query' = q
  /\ log0' = log
  /\ cache0' = cache
  /\ remote0' = remote
  /\ netReqs' = {}
  /\ budget' = budget - 1
  /\ \/ pc' = "returned" /\ ret' = << >> /\ log' = Cleared(sentQuery, log)
     \/ pc' = "failed" /\ ret' = <<LocalError>> /\ log' = log
  /\ addTasks' = << >>
  /\ UNCHANGED <<cache, remote, req, push2>>
  /\ UNCHANGED pushVars

\* clear as it would be if the query were not passed to the delete request.
ClearAll(q) == ClearWith(q, Ids)

Clear(q) == ClearWith(q, q)

(***************************************************************************)
(* The local request executor (LocalRequest.execute) as Sync uses it: the  *)
(* call resolves with a Response {statusCode, headers, data} or fails.     *)
(***************************************************************************)
Response(data) == [statusCode |-> 200, headers |-> << >>, data |-> data]

\* JavaScript truthiness of what execute resolved with: an object is never falsy.
IsFalsy(response) == FALSE

(***************************************************************************)
(* addOperation(operation, collection, entities)                           *)
(***************************************************************************)
\* The entities a caller passes: a falsy one, one without _id, one with an id.
NullEntity == "null"
NoIdEntity == "noid"
EntityInputs == {NullEntity, NoIdEntity} \cup LogIds
EntityLists == UNION { [1..n -> EntityInputs] : n \in 1..MaxEntities }
\* A collection name, or the empty name.
CollectionInputs == Collections \cup {""}
\* A collection no entry of the initial logs was queued for.
OtherCollection == "shelves"

\* The async function as it would be without the test of the entity's id.
AddTaskUnchecked(operation, collection, entity) ==
  [operation |-> operation, collection |-> collection, entity |-> entity,
   st |-> IF entity = NullEntity THEN "done" ELSE "find"]

\* The async function of one entity up to its first await.
AddTask(operation, collection, entity) ==
  [operation |-> operation, collection |-> collection, entity |-> entity,
   st |-> CASE entity = NullEntity -> "done"
            [] entity = NoIdEntity -> "rejected"
            [] OTHER               -> "find"]

\* addOperation as it would be if the collection name were checked only
\* after the lookups of the entities had been issued.
AddStartLateCheck(operation, collection, entities) ==
  /\ CanCall
  /\ call' = "add"
  /\ query' = Ids
  /\ log0' = log
  /\ cache0' = cache
  /\ remote0' = remote
  /\ netReqs' = {}
  /\ budget' = budget - 1
  /\ LET tasks == [k \in 1..Len(entities) |->
                     AddTask(operation, collection, entities[k])]
     IN  /\ addTasks' = tasks
         /\ IF collection = "" \/ \E k \in 1..Len(tasks) : tasks[k].st = "rejected"
              THEN pc' = "failed" /\ ret' = <<SyncError>>
              ELSE IF \A k \in 1..Len(tasks) : tasks[k].st = "done"
                     THEN pc' = "returned" /\ ret' = entities
                     ELSE pc' = "running" /\ ret' = << >>
  /\ UNCHANGED <<log, cache, remote, req, push2>>
  /\ UNCHANGED pushVars

AddStart(operation, collection, entities) ==
  /\ CanCall
  /\ call' = "add"
  /\ query' = Ids
  /\ log0' = log
  /\ cache0' = cache
  /\ remote0' = remote
  /\ netReqs' = {}
  /\ budget' = budget - 1
  /\ IF collection = ""
       THEN /\ pc' = "failed"
            /\ ret' = <<SyncError>>
            /\ addTasks' = << >>
       ELSE LET tasks == [k \in 1..Len(entities) |->
                            AddTask(operation, collection, entities[k])]
            IN  /\ addTasks' = tasks
                /\ IF \E k \in 1..Len(tasks) : tasks[k].st = "rejected"
                     THEN pc' = "failed" /\ ret' = <<SyncError>>
                     ELSE IF \A k \in 1..Len(tasks) : tasks[k].st = "done"
                            THEN pc' = "returned" /\ ret' = entities
                            ELSE pc' = "running" /\ ret' = << >>
  /\ UNCHANGED <<log, cache, remote, req, push2>>
  /\ UNCHANGED pushVars

\* `let syncEntity = await findRequest.execute()`: the lookup resolves with
\* the Response of the log read, not with a log entry.
FindResult(id) == Response(Match({id}, log))

\* Lines 151-156: a fresh entry only when the lookup result is falsy.
SyncEntityFor(found, collection) ==
  IF IsFalsy(found) THEN [collection |-> collection, state |-> << >>] ELSE found

\* The lookup of entity k resolves.  `syncEntity.state.method = operation`
\* dereferences the state field of what the lookup returned; a Response has
\* none, the async function throws a TypeError, Promise.all rejects and the
\* upsert of lines 165-176 is not issued.
AddFindSucceeds(k) ==
  /\ call = "add"
  /\ pc = "running"
  /\ k \in 1..Len(addTasks)
  /\ addTasks[k].st = "find"
  /\ "state" \notin DOMAIN SyncEntityFor(FindResult(addTasks[k].entity),
                                        addTasks[k].collection)
  /\ addTasks' = [addTasks EXCEPT ![k].st = "rejected"]
  /\ pc' = "failed"
  /\ ret' = <<TypeError>>
  /\ UNCHANGED <<log, cache, remote, call, query, netReqs, log0, cache0, remote0,
                 budget, req, push2>>
  /\ UNCHANGED pushVars

\* The lookup of entity k fails: its error fails the call.
AddFindFails(k) ==
  /\ call = "add"
  /\ pc = "running"
  /\ k \in 1..Len(addTasks)
  /\ addTasks[k].st = "find"
  /\ addTasks' = [addTasks EXCEPT ![k].st = "rejected"]
  /\ pc' = "failed"
  /\ ret' = <<LocalError>>
  /\ UNCHANGED <<log, cache, remote, call, query, netReqs, log0, cache0, remote0,
                 budget, req, push2>>
  /\ UNCHANGED pushVars

\* The lookup of entity k settles after Promise.all has rejected: the async
\* function of the entity runs on, fails as above, and its rejection is
\* dropped; the call has failed with the first rejection.
AddFindLate(k) ==
  /\ call = "add"
  /\ pc = "failed"
  /\ k \in 1..Len(addTasks)
  /\ addTasks[k].st = "find"
  /\ addTasks' = [addTasks EXCEPT ![k].st = "rejected"]
  /\ UNCHANGED <<log, cache, remote, call, pc, ret, query, netReqs, log0, cache0,
                 remote0, budget, req, push2>>
  /\ UNCHANGED pushVars

(***************************************************************************)
(* push(query)                                                             *)
(***************************************************************************)
NoResult == [id |-> None, eid |-> None, data |-> None, error |-> None]
\* { _id: originalId, entity: {_id: eid, ...data}, error }
Result(id, eid, data, err) == [id |-> id, eid |-> eid, data |-> data, error |-> err]

\* A task is the promise chain of one deduplicated entry.
\*   st     the request the chain waits for, "idle" before its batch starts,
\*          "done" once it has resolved with res
\*   net    how the remote write or delete settled: None, "ok" or the error
\*   err    the error the catch handler received
\*   rid, rdata   the entity the remote write returned
\*   orig   the remote copy the recovery fetched
\*   rec    how the recovery went: None, "restored", "getfailed", "putfailed"
IdleTask ==
  [st |-> "idle", net |-> None, err |-> None, rid |-> None, rdata |-> None,
   orig |-> None, rec |-> None, res |-> NoResult]

Req(m, c, id, k) == [method |-> m, collection |-> c, id |-> id, key |-> k]

\* The remote delete goes to `${this.pathname}/${originalId}`, this.pathname
\* being the path of the sync collection.
DeleteTarget(e) == <<syncCollectionName, e.id>>

\* The remote write or delete the map callback issues for an entry.
WriteReq(e) ==
  CASE e.method = Delete -> Req(Delete, DeleteTarget(e)[1], DeleteTarget(e)[2], e.key)
    [] e.method = Create -> Req(Create, e.collection, None, e.key)
    [] OTHER             -> Req(Update, e.collection, e.id, e.key)

\* entity[idAttribute] as the catch handlers see it: a Create has deleted it.
SentId(e) == IF e.method = Create THEN None ELSE e.id

FailResult(e, err) == Result(e.id, SentId(e), e.data, err)

\* The map callback as it would be if its last branch took every method that
\* is not a Delete for a write.
FirstStepAnyMethod(e) == [IdleTask EXCEPT !.st = "net"]

\* The map callback: one remote request per recognized entry, a SyncError
\* result at once for any other method.
FirstStep(e) ==
  IF e.method \in SyncOperation
    THEN [IdleTask EXCEPT !.st = "net"]
    ELSE [IdleTask EXCEPT !.st = "done", !.res = FailResult(e, SyncError)]

\* The slice as it would be with an end one short.
BatchIndicesShort(se, from, size) == (from + 1)..Min(from + size - 1, Len(se))

\* syncEntities.slice(from, from + size), as indices.
BatchIndices(se, from, size) == (from + 1)..Min(from + size, Len(se))

\* batchSync: slice the next batch, advance i, start every entry of the batch.
StartBatch(se, from, size, tk, nr, sn, bs) ==
  LET idx == BatchIndices(se, from, size)
      net == { k \in idx : se[k].method \in SyncOperation }
  IN  /\ i' = from + size
      /\ task' = [k \in 1..Len(se) |-> IF k \in idx THEN FirstStep(se[k]) ELSE tk[k]]
      /\ netReqs' = nr \cup { WriteReq(se[k]) : k \in net }
      /\ sent' = [key \in DOMAIN sn |->
                    sn[key] + Cardinality({ k \in net : se[k].key = key })]
      /\ batches' = Append(bs, Cardinality(idx))

\* Entries whose remote write or delete failed in the push that ran last.
FailedRemote ==
  { syncEntities[k] : k \in { j \in 1..Len(syncEntities) :
                              task[j].net \in RemoteErrors } }

NoSent == [k \in 1..MaxKey |-> 0]

\* push, from the call to the start of the first batch; data is what the log
\* read returned when it succeeded.
PushStartWith(q, size, data) ==
  /\ CanCall
  /\ call' = "push"
  /\ query' = q
  /\ batchSize' = size
  /\ log0' = log
  /\ cache0' = cache
  /\ remote0' = remote
  /\ budget' = budget - 1
  /\ retry' = (retry \ Range(syncEntities)) \cup FailedRemote
  /\ syncResults' = << >>
  /\ addTasks' = << >>
  /\ UNCHANGED <<log, cache, remote, req, push2>>
  /\ \/ \* the log read fails: push fails with its error
        /\ pc' = "failed"
        /\ ret' = <<LocalError>>
        /\ syncEntities' = << >>
        /\ task' = << >>
        /\ i' = 0
        /\ netReqs' = {}
        /\ sent' = NoSent
        /\ batches' = << >>
     \/ \* syncEntities.length is 0: return an empty array
        /\ data = {}
        /\ pc' = "returned"
        /\ ret' = << >>
        /\ syncEntities' = << >>
        /\ task' = << >>
        /\ i' = 0
        /\ netReqs' = {}
        /\ sent' = NoSent
        /\ batches' = << >>
     \/ /\ data # {}
        /\ pc' = "running"
        /\ ret' = << >>
        /\ syncEntities' = Dedup(data)
        /\ StartBatch(Dedup(data), 0, size,
                      [k \in 1..Len(Dedup(data)) |-> IdleTask], {}, NoSent, << >>)

\* push as it would be if the query were not passed to the log read.
PushStartNoQuery(q, size) == PushStartWith(q, size, log)

PushStart(q, size) == PushStartWith(q, size, Match(q, log))

Running(k) ==
  /\ call = "push"
  /\ pc = "running"
  /\ k \in 1..Len(syncEntities)

\* What a step of one chain leaves alone.
TaskFrame ==
  UNCHANGED <<call, pc, ret, query, log0, cache0, remote0, budget, batchSize,
              syncEntities,
              i, syncResults, addTasks, sent, batches, retry, req, push2>>

\* The catch handler of a chain: an insufficient-credentials error starts the
\* recovery fetch (for a Delete or an Update), any other error ends the chain.
\* The handler as it would be without the `method !== POST` test.
RecoversAnyMethod(e, err) == err = InsufficientCredentialsError

Recovers(e, err) == err = InsufficientCredentialsError /\ e.method # Create

\* The handler as it would be if it threw the error on: the chain rejects,
\* Promise.all rejects inside the promise executor of batchSync, and resolve
\* is never called.
CatchRethrows(k, t, err) ==
  /\ task' = [task EXCEPT ![k] = [t EXCEPT !.st = "rejected", !.err = err]]
  /\ netReqs' = netReqs

Catch(k, t, err) ==
  LET e == syncEntities[k]
  IN  IF Recovers(e, err)
        THEN /\ task' = [task EXCEPT ![k] = [t EXCEPT !.st = "recget", !.err = err]]
             /\ netReqs' = netReqs \cup {Req("GET", e.collection, e.id, e.key)}
        ELSE /\ task' = [task EXCEPT ![k] =
                           [t EXCEPT !.st = "done", !.err = err,
                                     !.res = FailResult(e, err)]]
             /\ netReqs' = netReqs

\* What the server stores and returns for a written entity.
Srv(data) == ServerData

\* The server assigns an id its collection does not hold yet.
FreeServerIds(c) == { s \in ServerIds : remote[<<c, s>>] = None }
NewServerId(c) ==
  LET free == { n \in 1..Len(ServerIdSeq) : ServerIdSeq[n] \in FreeServerIds(c) }
  IN  ServerIdSeq[CHOOSE n \in free : \A o \in free : n <= o]

\* The remote write or delete of entry k succeeds; the chain goes on to
\* delete the log entry.
RemoteSucceeds(k) ==
  LET e == syncEntities[k]
      t == task[k]
  IN  /\ Running(k)
      /\ t.st = "net"
      /\ \/ /\ e.method = Delete
            /\ remote' = [remote EXCEPT ![DeleteTarget(e)] = None]
            /\ task' = [task EXCEPT ![k] = [t EXCEPT !.st = "logdel", !.net = "ok"]]
         \/ /\ e.method = Update
            /\ remote' = [remote EXCEPT ![<<e.collection, e.id>>] = Srv(e.data)]
            /\ task' = [task EXCEPT ![k] =
                          [t EXCEPT !.st = "logdel", !.net = "ok", !.rid = e.id,
                                    !.rdata = Srv(e.data)]]
         \/ /\ e.method = Create
            /\ FreeServerIds(e.collection) # {}
            /\ LET s == NewServerId(e.collection)
               IN  /\ remote' = [remote EXCEPT ![<<e.collection, s>>] = Srv(e.data)]
                   /\ task' = [task EXCEPT ![k] =
                                 [t EXCEPT !.st = "logdel", !.net = "ok", !.rid = s,
                                           !.rdata = Srv(e.data)]]
      /\ UNCHANGED <<log, cache, netReqs>>
      /\ TaskFrame

\* The failure handler as it would be if it removed the entry from the sync
\* table (cf. the comment at the head of the catch handler of a write).
RemoteFailsDropsEntry(k, err) ==
  /\ Running(k)
  /\ task[k].st = "net"
  /\ Catch(k, [task[k] EXCEPT !.net = err], err)
  /\ log' = { x \in log : x.key # syncEntities[k].key }
  /\ UNCHANGED <<cache, remote>>
  /\ TaskFrame

\* The chain as it would be without a catch handler: the rejection of the
\* remote request rejects Promise.all and with it the push.
RemoteFailsAbortsPush(k, err) ==
  /\ Running(k)
  /\ task[k].st = "net"
  /\ task' = [task EXCEPT ![k] = [@ EXCEPT !.st = "done", !.net = err, !.err = err]]
  /\ pc' = "failed"
  /\ ret' = <<err>>
  /\ UNCHANGED <<log, cache, remote, call, query, netReqs, log0, cache0, remote0,
                 budget, batchSize, syncEntities, i, syncResults, addTasks, sent,
                 batches, retry, req, push2>>

\* The remote write or delete of entry k fails with err.
RemoteFails(k, err) ==
  /\ Running(k)
  /\ task[k].st = "net"
  /\ Catch(k, [task[k] EXCEPT !.net = err], err)
  /\ UNCHANGED <<log, cache, remote>>
  /\ TaskFrame

\* The delete of the log entry as it would be if it removed nothing.
LogKept(e) == log

\* The delete of the log entry, addressed by the entry's own id.
LogWithout(e) == { x \in log : x.key # e.key }

LogDeleteSucceeds(k) ==
  LET e == syncEntities[k]
      t == task[k]
  IN  /\ Running(k)
      /\ t.st = "logdel"
      /\ log' = LogWithout(e)
      /\ IF e.method = Delete
           THEN task' = [task EXCEPT ![k] =
                           [t EXCEPT !.st = "done",
                                     !.res = Result(e.id, e.id, e.data, None)]]
           ELSE task' = [task EXCEPT ![k] = [t EXCEPT !.st = "cacheput"]]
      /\ UNCHANGED <<cache, remote, netReqs>>
      /\ TaskFrame

\* A failed local step of the chain lands in the chain's catch handler.
LocalStepFails(k) ==
  /\ Running(k)
  /\ task[k].st \in {"logdel", "cacheput", "cachedel"}
  /\ Catch(k, task[k], LocalError)
  /\ UNCHANGED <<log, cache, remote>>
  /\ TaskFrame

\* The cache write as it would be if it stored the queued entity.
CachePutWritesQueued(k) ==
  LET e == syncEntities[k]
      t == task[k]
  IN  /\ Running(k)
      /\ t.st = "cacheput"
      /\ cache' = [cache EXCEPT ![<<e.collection, t.rid>>] = e.data]
      /\ IF e.method = Create
           THEN task' = [task EXCEPT ![k] = [t EXCEPT !.st = "cachedel"]]
           ELSE task' = [task EXCEPT ![k] =
                           [t EXCEPT !.st = "done",
                                     !.res = Result(e.id, t.rid, t.rdata, None)]]
      /\ UNCHANGED <<log, remote, netReqs>>
      /\ TaskFrame

\* The cache write of the server's entity under the id the server returned.
CachePutSucceeds(k) ==
  LET e == syncEntities[k]
      t == task[k]
  IN  /\ Running(k)
      /\ t.st = "cacheput"
      /\ cache' = [cache EXCEPT ![<<e.collection, t.rid>>] = t.rdata]
      /\ IF e.method = Create
           THEN task' = [task EXCEPT ![k] = [t EXCEPT !.st = "cachedel"]]
           ELSE task' = [task EXCEPT ![k] =
                           [t EXCEPT !.st = "done",
                                     !.res = Result(e.id, t.rid, t.rdata, None)]]
      /\ UNCHANGED <<log, remote, netReqs>>
      /\ TaskFrame

\* Create only: the delete of the cache record under the local id.
CacheDeleteSucceeds(k) ==
  LET e == syncEntities[k]
      t == task[k]
  IN  /\ Running(k)
      /\ t.st = "cachedel"
      /\ cache' = [cache EXCEPT ![<<e.collection, e.id>>] = None]
      /\ task' = [task EXCEPT ![k] =
                    [t EXCEPT !.st = "done",
                              !.res = Result(e.id, t.rid, t.rdata, None)]]
      /\ UNCHANGED <<log, remote, netReqs>>
      /\ TaskFrame

\* Recovery: fetch the remote copy, then overwrite the cache record with it;
\* an error of either step is thrown away.
RecoveryGetSucceeds(k) ==
  LET e == syncEntities[k]
      t == task[k]
  IN  /\ Running(k)
      /\ t.st = "recget"
      /\ remote[<<e.collection, e.id>>] # None
      /\ task' = [task EXCEPT ![k] =
                    [t EXCEPT !.st = "recput",
                              !.orig = remote[<<e.collection, e.id>>]]]
      /\ UNCHANGED <<log, cache, remote, netReqs>>
      /\ TaskFrame

\* The recovery as it would be if it wrote the queued entity back.
RecoveryPutWritesQueued(k) ==
  LET e == syncEntities[k]
      t == task[k]
  IN  /\ Running(k)
      /\ t.st = "recput"
      /\ cache' = [cache EXCEPT ![<<e.collection, e.id>>] = e.data]
      /\ task' = [task EXCEPT ![k] =
                    [t EXCEPT !.st = "done", !.rec = "restored",
                              !.res = FailResult(e, t.err)]]
      /\ UNCHANGED <<log, remote, netReqs>>
      /\ TaskFrame

RecoveryPutSucceeds(k) ==
  LET e == syncEntities[k]
      t == task[k]
  IN  /\ Running(k)
      /\ t.st = "recput"
      /\ cache' = [cache EXCEPT ![<<e.collection, e.id>>] = t.orig]
      /\ task' = [task EXCEPT ![k] =
                    [t EXCEPT !.st = "done", !.rec = "restored",
                              !.res = FailResult(e, t.err)]]
      /\ UNCHANGED <<log, remote, netReqs>>
      /\ TaskFrame

RecoveryFails(k) ==
  LET e == syncEntities[k]
      t == task[k]
  IN  /\ Running(k)
      /\ t.st \in {"recget", "recput"}
      /\ task' = [task EXCEPT ![k] =
                    [t EXCEPT !.st = "done",
                              !.rec = IF t.st = "recget" THEN "getfailed"
                                                         ELSE "putfailed",
                              !.res = FailResult(e, t.err)]]
      /\ UNCHANGED <<log, cache, remote, netReqs>>
      /\ TaskFrame

\* Promise.all over the batch resolves once every chain of the batch has.
CurrentBatch == BatchIndices(syncEntities, i - batchSize, batchSize)
\* Promise.race in the place of Promise.all.
BatchSettledAny == \E k \in CurrentBatch : task[k].st = "done"
BatchSettled == \A k \in CurrentBatch : task[k].st = "done"

\* The results of the batch as they would be if collected last entry first.
BatchResultsReversed ==
  [j \in 1..Cardinality(CurrentBatch) |->
     task[i - batchSize + Cardinality(CurrentBatch) + 1 - j].res]

\* The results of the batch, in the order of its entries.
BatchResults ==
  [j \in 1..Cardinality(CurrentBatch) |-> task[i - batchSize + j].res]

\* The continuation of batchSync after Promise.all: concat the results, then
\* start the next batch or resolve.
BatchDone ==
  /\ call = "push"
  /\ pc = "running"
  /\ BatchSettled
  /\ syncResults' = syncResults \o BatchResults
  /\ IF i < Len(syncEntities)
       THEN /\ StartBatch(syncEntities, i, batchSize, task, netReqs, sent, batches)
            /\ UNCHANGED <<pc, ret>>
       ELSE /\ pc' = "returned"
            /\ ret' = syncResults \o BatchResults
            /\ UNCHANGED <<i, task, netReqs, sent, batches>>
  /\ UNCHANGED <<log, cache, remote, call, query, batchSize, syncEntities, addTasks,
                 log0, cache0, remote0, retry, budget, req, push2>>

\* A step of the running push.
PushStep ==
  \/ \E k \in 1..MaxKey : RemoteSucceeds(k)
  \/ \E k \in 1..MaxKey, err \in RemoteErrors : RemoteFails(k, err)
  \/ \E k \in 1..MaxKey : LogDeleteSucceeds(k)
  \/ \E k \in 1..MaxKey : LocalStepFails(k)
  \/ \E k \in 1..MaxKey : CachePutSucceeds(k)
  \/ \E k \in 1..MaxKey : CacheDeleteSucceeds(k)
  \/ \E k \in 1..MaxKey : RecoveryGetSucceeds(k)
  \/ \E k \in 1..MaxKey : RecoveryPutSucceeds(k)
  \/ \E k \in 1..MaxKey : RecoveryFails(k)
  \/ BatchDone

Next ==
  \/ \E q \in Queries : Count(q)
  \/ \E q \in Queries : Clear(q)
  \/ \E o \in SyncOperation, c \in CollectionInputs, es \in EntityLists :
       AddStart(o, c, es)
  \/ \E k \in 1..MaxEntities : AddFindSucceeds(k)
  \/ \E k \in 1..MaxEntities : AddFindFails(k)
  \/ \E q \in Queries, size \in BatchSizes : PushStart(q, size)
  \/ PushStep

\* The calls that change the log, the cache or the remote store.
NextPush ==
  \/ \E q \in Queries : Clear(q)
  \/ \E q \in Queries, size \in BatchSizes : PushStart(q, size)
  \/ PushStep

Spec == Init /\ [][Next]_vars

\* One call, from the three-entry logs of the id patterns.
InitPattern ==
  /\ InitStore
  /\ log \in PatternLogs
  /\ budget = 1
SpecPattern == InitPattern /\ [][Next]_vars

\* Several calls: pushes, and clears between them.
InitDeep ==
  /\ InitStore
  /\ log \in InitLogs
  /\ Cardinality(log) <= DeepLog
  /\ budget = MaxCalls
SpecDeep == InitDeep /\ [][NextPush]_vars

(***************************************************************************)
(* A second push invocation, made without awaiting the caller's running    *)
(* call: the same code (batch size 100, no query) on the same stores.      *)
(***************************************************************************)
\* What the catch handler of a chain makes of the chain.
Caught(e, t, err) ==
  IF Recovers(e, err)
    THEN [t EXCEPT !.st = "recget", !.err = err]
    ELSE [t EXCEPT !.st = "done", !.err = err, !.res = FailResult(e, err)]

Outcome(t, lg, ca, re) == [task |-> t, log |-> lg, cache |-> ca, remote |-> re]

\* The remote write or delete of entry e settles.
NetOutcomes(e, t) ==
  { Outcome(Caught(e, [t EXCEPT !.net = err], err), log, cache, remote) :
      err \in RemoteErrors }
  \cup
  ( CASE e.method = Delete ->
           { Outcome([t EXCEPT !.st = "logdel", !.net = "ok"], log, cache,
                     [remote EXCEPT ![DeleteTarget(e)] = None]) }
      [] e.method = Update ->
           { Outcome([t EXCEPT !.st = "logdel", !.net = "ok", !.rid = e.id,
                               !.rdata = Srv(e.data)], log, cache,
                     [remote EXCEPT ![<<e.collection, e.id>>] = Srv(e.data)]) }
      [] e.method = Create /\ FreeServerIds(e.collection) # {} ->
           { Outcome([t EXCEPT !.st = "logdel", !.net = "ok",
                               !.rid = NewServerId(e.collection),
                               !.rdata = Srv(e.data)], log, cache,
                     [remote EXCEPT ![<<e.collection, NewServerId(e.collection)>>] =
                                       Srv(e.data)]) }
      [] OTHER -> {} )

\* A local step of the success handler settles.
LocalOutcomes(e, t) ==
  { Outcome(Caught(e, t, LocalError), log, cache, remote) }
  \cup
  ( CASE t.st = "logdel" ->
           { Outcome(IF e.method = Delete
                       THEN [t EXCEPT !.st = "done",
                                      !.res = Result(e.id, e.id, e.data, None)]
                       ELSE [t EXCEPT !.st = "cacheput"],
                     LogWithout(e), cache, remote) }
      [] t.st = "cacheput" ->
           { Outcome(IF e.method = Create
                       THEN [t EXCEPT !.st = "cachedel"]
                       ELSE [t EXCEPT !.st = "done",
                                      !.res = Result(e.id, t.rid, t.rdata, None)],
                     log, [cache EXCEPT ![<<e.collection, t.rid>>] = t.rdata],
                     remote) }
      [] OTHER ->
           { Outcome([t EXCEPT !.st = "done",
                               !.res = Result(e.id, t.rid, t.rdata, None)],
                     log, [cache EXCEPT ![<<e.collection, e.id>>] = None], remote) } )

\* A step of the recovery settles.
RecoveryOutcomes(e, t) ==
  { Outcome([t EXCEPT !.st = "done",
                      !.rec = IF t.st = "recget" THEN "getfailed" ELSE "putfailed",
                      !.res = FailResult(e, t.err)], log, cache, remote) }
  \cup
  ( IF t.st = "recget"
      THEN IF remote[<<e.collection, e.id>>] # None
             THEN { Outcome([t EXCEPT !.st = "recput",
                                      !.orig = remote[<<e.collection, e.id>>]],
                            log, cache, remote) }
             ELSE {}
      ELSE { Outcome([t EXCEPT !.st = "done", !.rec = "restored",
                               !.res = FailResult(e, t.err)],
                     log, [cache EXCEPT ![<<e.collection, e.id>>] = t.orig],
                     remote) } )

\* The steps the chain of entry e can take from t on the stores as they are.
ChainSteps(e, t) ==
  CASE t.st = "net" -> NetOutcomes(e, t)
    [] t.st \in {"logdel", "cacheput", "cachedel"} -> LocalOutcomes(e, t)
    [] t.st \in {"recget", "recput"} -> RecoveryOutcomes(e, t)
    [] OTHER -> {}

\* What a step of the second push leaves alone.
CallerFrame ==
  UNCHANGED <<call, pc, ret, query, batchSize, syncEntities, i, task,
              syncResults, addTasks, netReqs, sent, batches, log0, cache0,
              remote0, retry, budget, req>>

\* The second push from its call to the start of its only batch.
Push2Start ==
  /\ push2.pc = "idle"
  /\ \/ push2' = [push2 EXCEPT !.pc = "failed", !.ret = <<LocalError>>,
                                !.overlap = (call = "push" /\ pc = "running")]
     \/ /\ log = {}
        /\ push2' = [push2 EXCEPT !.pc = "returned",
                                  !.overlap = (call = "push" /\ pc = "running")]
     \/ /\ log # {}
        /\ LET se == Dedup(log)
               net == { k \in BatchIndices(se, 0, CodeBatchSize) :
                          se[k].method \in SyncOperation }
           IN  push2' =
                 [pc |-> "running",
                  overlap |-> (call = "push" /\ pc = "running"),
                  syncEntities |-> se,
                  task |-> [k \in 1..Len(se) |->
                              IF k \in BatchIndices(se, 0, CodeBatchSize)
                                THEN FirstStep(se[k]) ELSE IdleTask],
                  sent |-> [key \in 1..MaxKey |->
                              Cardinality({ k \in net : se[k].key = key })],
                  ret |-> << >>]
  /\ UNCHANGED <<log, cache, remote>>
  /\ CallerFrame

\* A request of the chain of the k-th entry of the second push settles.
Push2Step(k) ==
  /\ push2.pc = "running"
  /\ k \in 1..Len(push2.syncEntities)
  /\ \E o \in ChainSteps(push2.syncEntities[k], push2.task[k]) :
       /\ push2' = [push2 EXCEPT !.task[k] = o.task]
       /\ log' = o.log
       /\ cache' = o.cache
       /\ remote' = o.remote
  /\ CallerFrame

\* Promise.all of the batch of the second push resolves and the push returns.
Push2Done ==
  /\ push2.pc = "running"
  /\ \A k \in 1..Len(push2.syncEntities) : push2.task[k].st = "done"
  /\ push2' = [push2 EXCEPT !.pc = "returned",
                            !.ret = [k \in 1..Len(push2.syncEntities) |->
                                       push2.task[k].res]]
  /\ UNCHANGED <<log, cache, remote>>
  /\ CallerFrame

Push2Steps == (\E k \in 1..MaxKey : Push2Step(k)) \/ Push2Done

\* Logs of up to DeepLog entries, one call of the caller.
InitConcurrent ==
  /\ InitStore
  /\ log \in InitLogs
  /\ Cardinality(log) <= DeepLog
  /\ budget = 1

\* Two push invocations: the second is made once the first has been made,
\* while it runs or after it has returned.
NextOverlap ==
  \/ PushStart(Ids, CodeBatchSize)
  \/ PushStep
  \/ call = "push" /\ Push2Start
  \/ Push2Steps
SpecOverlap == InitConcurrent /\ [][NextOverlap]_vars

\* An addOperation call made while a push is running.
AddSteps ==
  \/ \E k \in 1..MaxEntities : AddFindSucceeds(k)
  \/ \E k \in 1..MaxEntities : AddFindFails(k)
  \/ \E k \in 1..MaxEntities : AddFindLate(k)
NextInterleave ==
  \/ Push2Start
  \/ Push2Steps
  \/ /\ push2.pc = "running"
     /\ \E o \in SyncOperation, c \in Collections, es \in EntityLists :
          AddStart(o, c, es)
  \/ AddSteps
SpecInterleave ==
  /\ InitConcurrent
  /\ [][NextInterleave]_vars
  /\ WF_vars(Push2Steps)
  /\ WF_vars(AddSteps)

\* One addOperation call, for a collection of the log's entries or another,
\* followed until the lookups of all its entities have settled.
NextAdd ==
  \/ \E o \in SyncOperation, c \in Collections \cup {OtherCollection},
        es \in EntityLists : AddStart(o, c, es)
  \/ AddSteps
SpecAdd == InitConcurrent /\ [][NextAdd]_vars

\* One push of the whole log, every request of which eventually settles: a
\* step of the running push that can be taken is eventually taken.
NextLive ==
  \/ \E size \in BatchSizes : PushStart(Ids, size)
  \/ PushStep
SpecLive == Init /\ [][NextLive]_vars /\ WF_vars(PushStep)

(***************************************************************************)
(* LocalRequest (src/src/requests/local.js): execute and cancel of one     *)
(* request against the pipeline (this.rack).                               *)
(***************************************************************************)
\* An error object: its kind and its identity.
ErrorObject(name, oid) == [name |-> name, oid |-> oid]

\* Status codes a pipeline result carries.
Statuses == {200, 401, 404, 500}
\* The success predicate of a Response.
IsSuccess(response) == response.statusCode \in 200..299
\* The error a Response embeds.
EmbeddedError(status, oid) ==
  CASE status \in 200..299 -> NotSettled
    [] status = 401        -> ErrorObject(InsufficientCredentialsError, oid)
    [] status = 404        -> ErrorObject(NotFoundError, oid)
    [] OTHER               -> ErrorObject(KinveyError, oid)

\* What this.rack.execute(this) resolves with: nothing, a raw result, or a
\* Response the pipeline built.
Nothing == [kind |-> "nothing"]
RawResult(status) ==
  [kind |-> "raw", statusCode |-> status, headers |-> << >>, data |-> LocalData]
RackResponse(status) ==
  [kind |-> "response", statusCode |-> status, headers |-> << >>,
   data |-> LocalData, error |-> EmbeddedError(status, "rack")]
RackResults ==
  {Nothing} \cup { RawResult(st) : st \in Statuses }
            \cup { RackResponse(st) : st \in Statuses }
\* The errors the pipeline call itself fails with.
RackErrors == { ErrorObject(LocalError, "rack"), ErrorObject(KinveyError, "rack") }

\* new Response({statusCode, headers, data}) of a raw result.
NewResponse(raw) ==
  [kind |-> "response", statusCode |-> raw.statusCode, headers |-> raw.headers,
   data |-> raw.data, error |-> EmbeddedError(raw.statusCode, "response")]

Returned(value) == [kind |-> "returned", value |-> value]
Thrown(error) == [kind |-> "thrown", value |-> error]

\* execute as it would be if it wrapped the error of an unsuccessful response.
SettleWrapped(r) ==
  LET response == IF r.kind = "raw" THEN NewResponse(r) ELSE r
  IN  IF r.kind = "nothing" THEN Thrown(ErrorObject(NoResponseError, "new"))
      ELSE IF ~IsSuccess(response) THEN Thrown(ErrorObject(KinveyError, "new"))
      ELSE Returned(response)

\* execute from the check of the pipeline's result to its return or throw.
Settle(r) ==
  LET response == IF r.kind = "raw" THEN NewResponse(r) ELSE r
  IN  IF r.kind = "nothing" THEN Thrown(ErrorObject(NoResponseError, "new"))
      ELSE IF ~IsSuccess(response) THEN Thrown(response.error)
      ELSE Returned(response)

\* execute: the shared setup marks the request as executing, then the request
\* is handed to the pipeline.
ExecuteStart ==
  /\ req.phase # "rack"
  /\ req.runs < MaxRuns
  /\ req' = [req EXCEPT !.executing = TRUE, !.phase = "rack",
                        !.result = NotSettled, !.out = NotSettled,
                        !.clears = 0, !.runs = @ + 1]
  /\ UNCHANGED syncVars

\* The pipeline call resolves with r: the flag is flipped, then r is checked.
RackResolves(r) ==
  /\ req.phase = "rack"
  /\ req' = [req EXCEPT !.executing = FALSE, !.clears = @ + 1,
                        !.phase = "done", !.result = r, !.out = Settle(r)]
  /\ UNCHANGED syncVars

\* The pipeline call rejects: the await throws and execute rejects with the
\* error; the statements after the await do not run.
RackRejects(err) ==
  /\ req.phase = "rack"
  /\ req' = [req EXCEPT !.phase = "done",
                        !.result = [kind |-> "rejected", error |-> err],
                        !.out = Thrown(err)]
  /\ UNCHANGED syncVars

\* cancel: the shared bookkeeping, then the pipeline's cancel.
CancelStart ==
  /\ req.cphase # "rack"
  /\ req' = [req EXCEPT !.cphase = "rack", !.cout = NotSettled]
  /\ UNCHANGED syncVars

\* `return this.rack.cancel()`: cancel settles as the pipeline's cancel does.
RackCancelResolves ==
  /\ req.cphase = "rack"
  /\ req' = [req EXCEPT !.cphase = "done", !.cout = Returned(NotSettled)]
  /\ UNCHANGED syncVars

RackCancelRejects(err) ==
  /\ req.cphase = "rack"
  /\ req' = [req EXCEPT !.cphase = "done", !.cout = Thrown(err)]
  /\ UNCHANGED syncVars

NextRequest ==
  \/ ExecuteStart
  \/ \E r \in RackResults : RackResolves(r)
  \/ \E err \in RackErrors : RackRejects(err)
  \/ CancelStart
  \/ RackCancelResolves
  \/ \E err \in RackErrors : RackCancelRejects(err)

\* One LocalRequest, executed and cancelled; no Sync call is made.
InitRequest ==
  /\ InitStore
  /\ log = {}
  /\ budget = 0
SpecRequest == InitRequest /\ [][NextRequest]_vars

(***************************************************************************)
(* Properties.                                                             *)
(***************************************************************************)
\* The entries of a set that carry the id x.
EntriesFor(x, entries) == { e \in entries : e.id = x }
OnePerId(entries) == \A x \in Ids : Cardinality(EntriesFor(x, entries)) <= 1

\* C1 (coalescing law): once an addOperation call that names a collection and
\* passes entities with ids has settled without a validation or storage
\* error, on a log that held at most one entry per id, the log holds exactly
\* one entry for each of those ids, and that entry carries the method and the
\* entity of the call.
C1_CoalescingLaw ==
  ( /\ call = "add"
    /\ pc \in {"returned", "failed"}
    /\ ret \notin {<<SyncError>>, <<LocalError>>}
    /\ OnePerId(log0) )
  => \A k \in 1..Len(addTasks) :
       addTasks[k].entity \in Ids =>
         /\ Cardinality(EntriesFor(addTasks[k].entity, log)) = 1
         /\ \A e \in EntriesFor(addTasks[k].entity, log) :
              /\ e.method = addTasks[k].operation
              /\ e.data = LocalData

\* C2: count(query) returns the number of distinct entity ids among the log
\* entries matching the query, also when entries of one id are not adjacent
\* in descending key order.
C2_CountDistinctIds ==
  (call = "count" /\ pc = "returned")
  => ret[1] = Cardinality({ e.id : e \in { x \in log : x.id \in query } })

\* C3: when a push has returned and the chain of a Create entry queued under
\* local id L went through (the remote create succeeded, the server assigned
\* id S, the result carries no error), the log holds no entry for L, the cache
\* holds the server's entity under S and the cache holds no record under L.
C3_CreatePushed ==
  (call = "push" /\ pc = "returned")
  => \A k \in 1..Len(syncEntities) :
       ( /\ syncEntities[k].method = Create
         /\ task[k].net = "ok"
         /\ task[k].res.error = None )
       => /\ EntriesFor(syncEntities[k].id, log) = {}
          /\ cache[<<syncEntities[k].collection, task[k].rid>>] = task[k].rdata
          /\ cache[<<syncEntities[k].collection, syncEntities[k].id>>] = None

\* The entries the log held, when the call started, that match its query.
Matched0 == { e \in log0 : e.id \in query }

C5_RemoteErrorIsolated ==
  call = "push" =>
    /\ pc = "failed" => (syncEntities = << >> /\ netReqs = {})
    /\ pc = "returned" =>
         /\ Len(ret) = Len(syncEntities)
         /\ \A k \in 1..Len(syncEntities) :
              /\ task[k].st = "done"
              /\ ret[k] = task[k].res
              /\ ret[k].id = syncEntities[k].id
              /\ syncEntities[k].method \in SyncOperation => task[k].net # None
              /\ task[k].net \in RemoteErrors => ret[k].error = task[k].net

\* A push of several batches has returned; the remote operation of an entry
\* failed, an entry of the same batch and an entry of a later batch went
\* through.
C5_Witness ==
  /\ call = "push"
  /\ pc = "returned"
  /\ batchSize = 2
  /\ Len(syncEntities) = 3
  /\ ret[1].error \in RemoteErrors
  /\ task[2].net = "ok" /\ ret[2].error = None
  /\ task[3].net = "ok" /\ ret[3].error = None

\* The batches of n entries with batch size b.
ExpectedBatches(n, b) ==
  [j \in 1..((n + b - 1) \div b) |-> IF j * b <= n THEN b ELSE n - b * (j - 1)]

\* C6: a push that has returned, on a log whose N entries matching the query
\* have pairwise distinct ids, with batch size B, returns exactly N results,
\* one per entry in descending key order, and has run ceil(N/B) batches, each
\* of B entries except the last, which has N - B*(ceil(N/B)-1).
C6_BatchedResults ==
  (call = "push" /\ pc = "returned" /\ OnePerId(Matched0))
  => /\ Len(ret) = Cardinality(Matched0)
     /\ syncEntities = orderByKeyDesc(Matched0)
     /\ \A k \in 1..Len(ret) : ret[k].id = syncEntities[k].id
     /\ batches = ExpectedBatches(Cardinality(Matched0), batchSize)

\* Three entries of distinct ids pushed with batch size 2: batches of 2 and 1.
C6_Witness ==
  /\ call = "push"
  /\ pc = "returned"
  /\ OnePerId(Matched0)
  /\ Cardinality(Matched0) = 3
  /\ batchSize = 2
  /\ batches = <<2, 1>>
  /\ Len(ret) = 3

\* The batch the k-th deduplicated entry belongs to.
BatchOf(k) == (k - 1) \div batchSize + 1
\* The chain of the k-th entry has an operation outstanding.
Outstanding(k) == task[k].st \notin {"idle", "done"}

\* C7: during a push, once the chain of an entry of a batch has started,
\* every chain of every earlier batch has settled; chains with an operation
\* outstanding belong to one batch.
C7_BatchesSequential ==
  call = "push" =>
    \A j, k \in 1..Len(syncEntities) :
      /\ (BatchOf(j) < BatchOf(k) /\ task[k].st # "idle") => task[j].st = "done"
      /\ (Outstanding(j) /\ Outstanding(k)) => BatchOf(j) = BatchOf(k)

\* The second batch is in flight after a first batch of two entries settled,
\* one of them through its recovery.
C7_Witness ==
  /\ call = "push"
  /\ pc = "running"
  /\ batchSize = 2
  /\ Len(syncEntities) = 3
  /\ task[1].rec # None
  /\ task[2].st = "done"
  /\ Outstanding(3)

\* C8: a push on a log with no entry matching its query never runs a batch:
\* it issues no remote request, leaves the log, the cache and the remote
\* store as they were, and what it returns is the empty sequence.
C8_EmptyPush ==
  (call = "push" /\ { e \in log0 : e.id \in query } = {})
  => /\ pc \in {"returned", "failed"}
     /\ pc = "returned" => ret = << >>
     /\ netReqs = {}
     /\ log = log0
     /\ cache = cache0
     /\ remote = remote0

\* A push has returned empty on a log that holds entries, none matching.
C8_Witness ==
  /\ call = "push"
  /\ pc = "returned"
  /\ ret = << >>
  /\ log0 # {}
  /\ { e \in log0 : e.id \in query } = {}

\* The step that ends the recovery of the chain of entry k.
RecoveryEnds(k) ==
  /\ call = "push"
  /\ k \in DOMAIN task
  /\ k \in DOMAIN task'
  /\ task[k].st \in {"recget", "recput"}
  /\ task'[k].st = "done"

\* The chains that caught an insufficient-credentials error of the remote
\* Update or Delete.
DeniedWrites ==
  { k \in 1..Len(syncEntities) :
      /\ task[k].net = InsufficientCredentialsError
      /\ syncEntities[k].method \in {Update, Delete} }

\* Every such chain goes through the recovery, and the push, which does not
\* fail, returns its result with the original error.
DeniedWritesRecovered ==
  call = "push" =>
    /\ DeniedWrites # {} => pc # "failed"
    /\ \A k \in DeniedWrites :
         /\ task[k].st \in {"recget", "recput", "done"}
         /\ task[k].st = "done" =>
              /\ task[k].rec \in {"restored", "getfailed", "putfailed"}
              /\ task[k].res = Result(syncEntities[k].id, syncEntities[k].id,
                                      syncEntities[k].data,
                                      InsufficientCredentialsError)
         /\ pc = "returned" => ret[k] = task[k].res

\* The step that ends a recovery ends the recovery of a denied Update or
\* Delete; when the fetch and the cache write succeeded it leaves the cache
\* record of the entity equal to the fetched remote copy, and when the fetch
\* failed it leaves the cache as it was; it raises nothing.
RecoveryStep ==
  \A k \in 1..Len(syncEntities) :
    RecoveryEnds(k) =>
      LET e == syncEntities[k]
      IN  /\ k \in DeniedWrites
          /\ pc' = pc
          /\ task'[k].rec = "restored" =>
               /\ task[k].orig # None
               /\ cache'[<<e.collection, e.id>>] = task[k].orig
          /\ task'[k].rec = "getfailed" => cache' = cache

\* C9: when the remote Update or Delete of an entry fails with an
\* insufficient-credentials error, the recovery leaves the cache record of the
\* entity equal to the remote copy it fetched if the fetch and the cache write
\* succeed, and unchanged if the fetch fails; in both cases the push returns
\* the result of the entry with the original error and does not fail.
C9_CredentialsRecovery == [][RecoveryStep /\ DeniedWritesRecovered']_vars

\* A push has returned after restoring the cache record of a denied Update
\* from the remote copy and after the recovery fetch of another denied entry
\* failed; both results carry the insufficient-credentials error.
C9_Witness ==
  /\ call = "push"
  /\ pc = "returned"
  /\ \E j, k \in DeniedWrites :
       /\ syncEntities[j].method = Update
       /\ task[j].rec = "restored"
       /\ cache[<<syncEntities[j].collection, syncEntities[j].id>>] = RemoteOld
       /\ ret[j].error = InsufficientCredentialsError
       /\ task[k].rec = "getfailed"
       /\ cache[<<syncEntities[k].collection, syncEntities[k].id>>] = LocalData
       /\ ret[k].error = InsufficientCredentialsError

\* C10: clear(query) issues no remote request, leaves the cache and the
\* remote store alone, and when it has returned the log holds exactly the
\* entries it held before that do not match the query (none when no query is
\* given).
C10_ClearExact ==
  call = "clear" =>
    /\ netReqs = {}
    /\ cache = cache0
    /\ remote = remote0
    /\ pc = "returned" => log = { e \in log0 : e.id \notin query }
    /\ pc = "failed" => log = log0

\* A clear with a query has returned after removing an entry and keeping one.
C10_Witness ==
  /\ call = "clear"
  /\ pc = "returned"
  /\ log # {}
  /\ log # log0

\* C11: whenever execute has finished, whether the pipeline resolved with a
\* successful response, with nothing or with an unsuccessful response, or the
\* pipeline call itself failed, the executing flag is false and this execute
\* cleared it exactly once.
C11_ExecutingCleared ==
  req.phase = "done" => (req.executing = FALSE /\ req.clears = 1)

\* C12: when execute has finished after the pipeline resolved, it returned a
\* response only if the pipeline produced a result whose success predicate is
\* true, and then that result as a Response; on nothing it failed with
\* NoResponseError; on an unsuccessful result it failed with the very error
\* the response embeds.
C12_ExecuteOutcome ==
  (req.phase = "done" /\ req.result.kind # "rejected") =>
    LET r == req.result
        response == IF r.kind = "raw" THEN NewResponse(r) ELSE r
    IN  /\ req.out.kind = "returned" =>
             /\ r.kind # "nothing"
             /\ IsSuccess(response)
             /\ req.out.value = response
        /\ r.kind = "nothing" =>
             (req.out.kind = "thrown" /\ req.out.value.name = NoResponseError)
        /\ (r.kind # "nothing" /\ ~IsSuccess(response)) =>
             req.out = Thrown(response.error)

\* execute has failed with the error embedded in a Response of the pipeline.
C12_Witness ==
  /\ req.phase = "done"
  /\ req.result.kind = "response"
  /\ req.result.statusCode = 404
  /\ req.out = Thrown(ErrorObject(NotFoundError, "rack"))

\* C13: cancel never fails: when it has settled, also after the pipeline's
\* cancel failed, it has returned.
C13_CancelNeverFails ==
  req.cphase = "done" => req.cout.kind = "returned"

\* The step of an addOperation call made without a collection name.
AddWithoutCollection ==
  \E o \in SyncOperation, es \in EntityLists : AddStart(o, "", es)

\* C14: an addOperation call made with an empty or missing collection name
\* fails at once with SyncError, whatever the entities are: no lookup of the
\* log is issued, no entry is written and the log is unchanged.
C14_CollectionRequired ==
  [][AddWithoutCollection =>
       /\ pc' = "failed"
       /\ ret' = <<SyncError>>
       /\ addTasks' = << >>
       /\ log' = log]_vars

\* An addOperation call without a collection name has failed on a log that
\* holds entries.
C14_Witness ==
  /\ call = "add"
  /\ pc = "failed"
  /\ ret = <<SyncError>>
  /\ addTasks = << >>
  /\ log # {}
  /\ log = log0

\* The matching entries whose remote write or delete the push has issued.
SentEntries == { e \in Matched0 : sent[e.key] > 0 }

\* C15: within one push, the remote write or delete of an entry is issued
\* once, and only for the entry with the highest key among the matching
\* entries of its entity id, so at most one is issued per id, also when the
\* entries of an id are not adjacent in descending key order.
C15_OneRemotePerId ==
  call = "push" =>
    \A e \in SentEntries :
      /\ sent[e.key] = 1
      /\ \A o \in Matched0 : o.id = e.id => o.key <= e.key

\* C16: when push has returned, the log entry of every result that carries
\* an error is still in the log, also when the remote write succeeded and a
\* later local step failed.
C16_ErrorKeepsEntry ==
  (call = "push" /\ pc = "returned") =>
    \A k \in 1..Len(ret) :
      ret[k].error # None => syncEntities[k] \in log

C18_DeleteReachesCollection ==
  (call = "push" /\ pc = "returned") =>
    \A k \in 1..Len(syncEntities) :
      ( /\ syncEntities[k].method = Delete
        /\ ret[k].error = None
        /\ syncEntities[k] \notin log )
      => remote[<<syncEntities[k].collection, syncEntities[k].id>>] = None

\* The remote requests the push has issued for the k-th deduplicated entry.
RequestsOf(k) == { r \in netReqs : r.key = syncEntities[k].key }
\* The recovery fetch of the k-th entry has been issued.
FetchIssued(k) == \E r \in RequestsOf(k) : r.method = "GET"

\* The recovery fetch is issued exactly for the chains that caught an
\* insufficient-credentials error of a remote Update or Delete; a chain whose
\* remote operation failed otherwise has ended with the one remote request
\* it made and without a recovery.
FetchOnlyForDeniedWrites ==
  call = "push" =>
    \A k \in 1..Len(syncEntities) :
      /\ FetchIssued(k) <=> k \in DeniedWrites
      /\ (task[k].net \in RemoteErrors /\ k \notin DeniedWrites) =>
           /\ task[k].st = "done"
           /\ task[k].rec = None
           /\ RequestsOf(k) = {WriteReq(syncEntities[k])}

\* The step in which the remote operation of a chain fails without recovery
\* ends the chain, issues no request and leaves the cache as it was.
FailureWithoutRecoveryStep ==
  \A k \in 1..Len(syncEntities) :
    ( /\ call = "push"
      /\ k \in DOMAIN task
      /\ k \in DOMAIN task'
      /\ task[k].st = "net"
      /\ task'[k].net \in RemoteErrors
      /\ ~( /\ task'[k].net = InsufficientCredentialsError
            /\ syncEntities[k].method \in {Update, Delete} ) )
    => /\ task'[k].st = "done"
       /\ netReqs' = netReqs
       /\ cache' = cache

\* C19: during a push the recovery fetch of the remote copy is issued exactly
\* when the remote operation of the entry failed with an
\* insufficient-credentials error and the method was Delete or Update; after
\* a failed Create and after a failure of another kind no further remote
\* request is made for the entry and the failure leaves the cache unchanged.
C19_RecoveryCondition ==
  [][FailureWithoutRecoveryStep /\ FetchOnlyForDeniedWrites']_vars

\* A push has returned after a denied Update that fetched the remote copy
\* and a denied Create that did not.
C19_Witness ==
  /\ call = "push"
  /\ pc = "returned"
  /\ \E j, k \in 1..Len(syncEntities) :
       /\ syncEntities[j].method = Update
       /\ task[j].net = InsufficientCredentialsError
       /\ FetchIssued(j)
       /\ syncEntities[k].method = Create
       /\ task[k].net = InsufficientCredentialsError
       /\ ~FetchIssued(k)
       /\ cache[<<syncEntities[k].collection, syncEntities[k].id>>] = LocalData

\* The chains whose remote Create or Update and whose local steps all
\* succeeded.
PushedWrites ==
  { k \in 1..Len(syncEntities) :
      /\ syncEntities[k].method \in {Create, Update}
      /\ task[k].net = "ok"
      /\ task[k].st = "done"
      /\ task[k].res.error = None }

\* The result of such a chain: the original id and the server's entity, under
\* the id the server returned.
ServerResults ==
  call = "push" =>
    \A k \in PushedWrites :
      LET e == syncEntities[k]
      IN  /\ task[k].rdata = Srv(e.data)
          /\ task[k].rdata # e.data
          /\ e.method = Update => task[k].rid = e.id
          /\ e.method = Create => task[k].rid \in ServerIds
          /\ task[k].res = Result(e.id, task[k].rid, task[k].rdata, None)
          /\ pc = "returned" => ret[k] = task[k].res

\* The cache write of a chain stores the server's entity under the id the
\* server returned.
CacheWriteStep ==
  \A k \in 1..Len(syncEntities) :
    ( /\ call = "push"
      /\ k \in DOMAIN task
      /\ k \in DOMAIN task'
      /\ task[k].st = "cacheput"
      /\ task'[k].st \in {"cachedel", "done"}
      /\ task'[k].err = None )
    => cache'[<<syncEntities[k].collection, task[k].rid>>] = task[k].rdata

\* C20: when the remote Create or Update of an entry and all its local steps
\* succeed, the cache record at the id the server returned is written with
\* the server's response payload, not with the queued payload, and the result
\* carries that payload as its entity and the original queued id as its id.
C20_ServerPayloadCached ==
  [][CacheWriteStep /\ ServerResults']_vars

\* A push has returned the result of a Create: the original id, the server's
\* entity under the server's id, which the cache holds.
C20_Witness ==
  /\ call = "push"
  /\ pc = "returned"
  /\ \E k \in PushedWrites :
       /\ syncEntities[k].method = Create
       /\ ret[k].id = syncEntities[k].id
       /\ ret[k].eid \in ServerIds
       /\ ret[k].data = ServerData
       /\ cache[<<syncEntities[k].collection, ret[k].eid>>] = ServerData

\* The deduplicated entries whose method is none of Create, Update, Delete.
UnrecognizedEntries ==
  { k \in 1..Len(syncEntities) : syncEntities[k].method \notin SyncOperation }

\* C21: for a deduplicated entry whose method is none of Create, Update and
\* Delete, push issues no remote request and runs no local step: its chain is
\* settled as soon as its batch starts, with a result that carries the
\* original id, the entity and a SyncError, which the push returns in the
\* entry's place; the log entry stays in the log; and a push all of whose
\* entries are such entries leaves the log, the cache and the remote store as
\* they were.
C21_UnrecognizedMethod ==
  call = "push" =>
    /\ \A k \in UnrecognizedEntries :
         LET e == syncEntities[k]
         IN  /\ task[k].st \in {"idle", "done"}
             /\ task[k].net = None
             /\ sent[e.key] = 0
             /\ RequestsOf(k) = {}
             /\ e \in log
             /\ task[k].st = "done" =>
                  task[k].res = Result(e.id, e.id, e.data, SyncError)
             /\ pc = "returned" => ret[k] = Result(e.id, e.id, e.data, SyncError)
    /\ UnrecognizedEntries = 1..Len(syncEntities) =>
         (log = log0 /\ cache = cache0 /\ remote = remote0 /\ netReqs = {})

\* A push has returned the SyncError result of an entry with an unrecognized
\* method next to the result of an entry it pushed and removed from the log.
C21_Witness ==
  /\ call = "push"
  /\ pc = "returned"
  /\ \E j \in UnrecognizedEntries, k \in 1..Len(syncEntities) :
       /\ ret[j].error = SyncError
       /\ syncEntities[j] \in log
       /\ task[k].net = "ok"
       /\ ret[k].error = None
       /\ syncEntities[k] \notin log

\* The entries the log held for the id of the k-th entity of an addOperation
\* call when the call was made.
QueuedFor(k) == EntriesFor(addTasks[k].entity, log0)

\* An addOperation call has settled without a validation or storage error.
AddSettled ==
  /\ call = "add"
  /\ pc \in {"returned", "failed"}
  /\ ret \notin {<<SyncError>>, <<LocalError>>}

\* C22: the lookup of addOperation matches on the entity id alone: once an
\* addOperation for id I in collection B has settled without a validation or
\* storage error, on a log that held one entry for I queued for another
\* collection A, the log holds exactly one entry for I, and that entry carries
\* the method and the entity of the call and the collection A.
C22_LookupByIdOnly ==
  AddSettled =>
    \A k \in 1..Len(addTasks) :
      ( /\ addTasks[k].entity \in Ids
        /\ Cardinality(QueuedFor(k)) = 1
        /\ \A o \in QueuedFor(k) : o.collection # addTasks[k].collection )
      => /\ Cardinality(EntriesFor(addTasks[k].entity, log)) = 1
         /\ \A e \in EntriesFor(addTasks[k].entity, log) :
              /\ e.method = addTasks[k].operation
              /\ e.data = LocalData
              /\ \E o \in QueuedFor(k) : e.collection = o.collection

\* C25: once an addOperation call whose sequence contains two entities with
\* the same id has settled without a validation or storage error, on a log
\* that held at most one entry for that id, the log holds exactly one entry
\* for that id, whatever the order in which the lookups of the two entities
\* settled.
C25_OneEntryForRepeatedId ==
  AddSettled =>
    \A j, k \in 1..Len(addTasks) :
      ( /\ j # k
        /\ addTasks[j].entity \in Ids
        /\ addTasks[j].entity = addTasks[k].entity
        /\ Cardinality(QueuedFor(k)) <= 1 )
      => Cardinality(EntriesFor(addTasks[k].entity, log)) = 1

\* The entities of an addOperation call that lack the identifier attribute.
WithoutId == { k \in 1..Len(addTasks) : addTasks[k].entity = NoIdEntity }

\* C26: an addOperation call that names a collection and whose sequence
\* contains an entity without the identifier attribute has failed with
\* SyncError, and the log is as it was before the call, also after the
\* lookups of the other entities of the sequence, which run on after the
\* failure, have settled.
C26_MissingIdFailsCall ==
  (call = "add" /\ WithoutId # {}) =>
    /\ pc = "failed"
    /\ ret = <<SyncError>>
    /\ log = log0

\* An addOperation call has failed with SyncError for an entity without id,
\* and the lookup of another entity of the call has settled after that; the
\* log holds what it held.
C26_Witness ==
  /\ call = "add"
  /\ pc = "failed"
  /\ ret = <<SyncError>>
  /\ WithoutId # {}
  /\ \E k \in 1..Len(addTasks) :
       addTasks[k].entity \in Ids /\ addTasks[k].st = "rejected"
  /\ log # {}
  /\ log = log0

\* C28: the sequence a push returns holds exactly one result per deduplicated
\* entry, the k-th result being the one of the chain of the k-th entry and
\* carrying the id that entry was queued with, the entries being those of the
\* log read in descending key order; this holds for every order in which the
\* remote operations of the entries of a batch complete.
C28_ResultOrder ==
  (call = "push" /\ pc = "returned") =>
    /\ syncEntities = Dedup(Matched0)
    /\ Len(ret) = Len(syncEntities)
    /\ \A k \in 1..Len(ret) :
         /\ ret[k] = task[k].res
         /\ ret[k].id = syncEntities[k].id
    /\ \A j, k \in 1..Len(ret) :
         j < k => syncEntities[j].key > syncEntities[k].key

\* A push has returned the results of two Creates of one batch in the order
\* of the entries, the remote create of the second entry having completed
\* first (the server handed it the first of its ids).
C28_Witness ==
  /\ call = "push"
  /\ pc = "returned"
  /\ batchSize >= 2
  /\ Len(ret) = 3
  /\ syncEntities[1].id # syncEntities[2].id
  /\ task[1].rid = ServerIdSeq[2]
  /\ task[2].rid = ServerIdSeq[1]
  /\ ret[1] = Result(syncEntities[1].id, ServerIdSeq[2], ServerData, None)
  /\ ret[2] = Result(syncEntities[2].id, ServerIdSeq[1], ServerData, None)

\* C27: a running push eventually returns its result sequence, provided every
\* request it waits for eventually settles, whichever of its remote requests,
\* local steps and recovery steps succeed or fail.
C27_PushTerminates ==
  (call = "push" /\ pc = "running") ~> (call = "push" /\ pc = "returned")

\* A push has returned after a local step of one chain failed behind a
\* successful remote write and the recovery of another chain failed.
C27_Witness ==
  /\ call = "push"
  /\ pc = "returned"
  /\ \E j, k \in 1..Len(syncEntities) :
       /\ task[j].net = "ok"
       /\ task[j].err = LocalError
       /\ ret[j].error = LocalError
       /\ task[k].rec \in {"getfailed", "putfailed"}
       /\ ret[k].error = InsufficientCredentialsError

\* The chains of the caller's push that completed without error.
Completed ==
  { k \in 1..Len(syncEntities) :
      task[k].st = "done" /\ task[k].net = "ok" /\ task[k].res.error = None }

\* C23: push invocations are not mutually excluded (the overlapping run is
\* the reachable state C23_Witness); when the second push is made after the
\* first has settled, each push issues the remote operation of an entry at
\* most once, the second push issues none for an entry whose chain completed
\* without error in the first, and the second push reads only entries the
\* first left in the log.
C23_SerializedPushes ==
  (call = "push" /\ push2.pc # "idle" /\ ~push2.overlap) =>
    /\ pc \in {"returned", "failed"}
    /\ \A key \in 1..MaxKey : sent[key] <= 1 /\ push2.sent[key] <= 1
    /\ \A k \in Completed : push2.sent[syncEntities[k].key] = 0
    /\ \A k \in Completed : syncEntities[k] \notin Range(push2.syncEntities)

\* Two overlapping pushes have returned: both read the same Create entry,
\* both issued its remote create, both creates succeeded, and the remote
\* store holds two records made from the one queued entry.
C23_Witness ==
  /\ call = "push"
  /\ pc = "returned"
  /\ push2.pc = "returned"
  /\ push2.overlap
  /\ \E j \in 1..Len(syncEntities), k \in 1..Len(push2.syncEntities) :
       LET e == syncEntities[j]
       IN  /\ push2.syncEntities[k] = e
           /\ e.method = Create
           /\ sent[e.key] = 1
           /\ push2.sent[e.key] = 1
           /\ task[j].net = "ok"
           /\ push2.task[k].net = "ok"
           /\ task[j].rid # push2.task[k].rid
           /\ remote[<<e.collection, task[j].rid>>] = ServerData
           /\ remote[<<e.collection, push2.task[k].rid>>] = ServerData

\* Two pushes made one after the other: the second has re-sent the entry
\* whose remote operation failed in the first.
C23_SerializedRetry ==
  /\ call = "push"
  /\ pc = "returned"
  /\ push2.pc = "returned"
  /\ ~push2.overlap
  /\ \E k \in 1..Len(syncEntities) :
       /\ task[k].net \in RemoteErrors
       /\ push2.sent[syncEntities[k].key] = 1

\* The addOperation call has settled, its n-th entity carrying the id of a
\* log entry and another method, while the running push has read that entry
\* and has not deleted it.
AddedDuringPush(n) ==
  /\ AddSettled
  /\ n \in 1..Len(addTasks)
  /\ push2.pc = "running"
  /\ \E e \in Range(push2.syncEntities) \cap log :
       /\ addTasks[n].entity = e.id
       /\ addTasks[n].operation # e.method

\* The log holds an entry for the id of the n-th entity that carries the
\* method and the payload of the addOperation call.
NewerQueued(n) ==
  /\ n \in 1..Len(addTasks)
  /\ \E x \in log :
       /\ x.id = addTasks[n].entity
       /\ x.method = addTasks[n].operation
       /\ x.data = LocalData

\* C24: no queued operation is lost when addOperation interleaves with push:
\* whenever an addOperation for the id of a log entry, with another method,
\* has settled after a running push read that entry and before the push
\* deleted it, then once the push has returned the log holds an entry for
\* that id carrying the method and the payload of the addOperation.
C24_NoLostOperation ==
  \A n \in 1..MaxEntities :
    [](AddedDuringPush(n) => [](push2.pc = "returned" => NewerQueued(n)))
====
